---- MODULE Spec2Model ----
(***************************************************************************)
(* A model of src/utils.py of SimpleDisNet: the storage path allocator     *)
(* (create_storage_folder), the segmentation renderer                      *)
(* (plot_segmentation_images), the results aggregator                      *)
(* (compute_and_store_final_results) and the dataloader factory (dataset). *)
(*                                                                         *)
(* A path is a sequence of segments (strings without "/"); os.path.join    *)
(* appends segments.  The filesystem below the working directory is the    *)
(* set of directories that exist, closed under parents.                    *)
(***************************************************************************)
EXTENDS Integers, Sequences, FiniteSets, TLC

VARIABLES
    fs,          \* storage: the set of existing directories (paths)
    calls,       \* storage: the create_storage_folder calls made so far, with their outcomes
    unreadable,  \* renderer: the image and mask files PIL.Image.open fails on
    figures,     \* renderer: the figure files under savefolder, savename -> number of panels
    render,      \* renderer: the last plot_segmentation_images call and its outcome
    csv,         \* aggregator: the content of results_path/results.csv
    stored,      \* aggregator: the last compute_and_store_final_results call and its outcome
    factory,     \* dataloaders: what dataset(...) returned to its caller
    loaders,     \* dataloaders: what the last get_dataloaders() call returned
    instances    \* dataloaders: the number of MVTecDataset instances constructed so far

vars == <<fs, calls, unreadable, figures, render, csv, stored, factory, loaders, instances>>

storageVars == <<fs, calls>>
renderVars == <<unreadable, figures, render>>
resultVars == <<csv, stored>>
loaderVars == <<factory, loaders, instances>>

(***************************************************************************)
(* Bounds of the model.                                                    *)
(***************************************************************************)
MaxCalls == 3
MaxSamples == 2
MaxRows == 2
MaxSubdatasets == 2
MaxInstances == 6

Min(a, b) == IF a < b THEN a ELSE b
Max(a, b) == IF a > b THEN a ELSE b

(***************************************************************************)
(* Storage path allocator: create_storage_folder.                          *)
(***************************************************************************)

\* os.path.join(path, segment)
Join(path, segment) == Append(path, segment)

\* the path and all its ancestors
Prefixes(path) == { SubSeq(path, 1, k) : k \in 1..Len(path) }

\* os.path.exists(path)
exists(dirs, path) == path \in dirs

\* os.makedirs with exist_ok dropped: an existing path always raises
makedirs_strict(dirs, path, exist_ok) ==
    IF exists(dirs, path)
    THEN [fs |-> dirs, err |-> "FileExistsError"]
    ELSE [fs |-> dirs \cup Prefixes(path), err |-> "none"]

\* os.makedirs(path, exist_ok): creates the path with its missing ancestors;
\* on an existing path it raises FileExistsError unless exist_ok.
makedirs(dirs, path, exist_ok) ==
    IF exists(dirs, path)
    THEN [fs |-> dirs, err |-> IF exist_ok THEN "none" ELSE "FileExistsError"]
    ELSE [fs |-> dirs \cup Prefixes(path), err |-> "none"]

\* the probe with "if" for "while": one suffix is tried, and taken unchecked
iterate_once(dirs, project_path, group_folder, save_path, counter) ==
    IF exists(dirs, save_path)
    THEN Join(project_path, group_folder \o "_" \o ToString(counter))
    ELSE save_path

\* the probe with the counter incremented before it is used: suffixes start at 1
RECURSIVE iterate_from_one(_, _, _, _, _)
iterate_from_one(dirs, project_path, group_folder, save_path, counter) ==
    IF exists(dirs, save_path)
    THEN iterate_from_one(dirs, project_path, group_folder,
                 Join(project_path, group_folder \o "_" \o ToString(counter + 1)),
                 counter + 1)
    ELSE save_path

\* the probe of "iterate" mode: counter = 0; while os.path.exists(save_path): ...
RECURSIVE iterate(_, _, _, _, _)
iterate(dirs, project_path, group_folder, save_path, counter) ==
    IF exists(dirs, save_path)
    THEN iterate(dirs, project_path, group_folder,
                 Join(project_path, group_folder \o "_" \o ToString(counter)),
                 counter + 1)
    ELSE save_path

\* the branch on mode, from the candidate save_path on
store(dirs, project_path, group_folder, save_path, mode) ==
    IF mode = "iterate"
    THEN LET path == iterate(dirs, project_path, group_folder, save_path, 0)
             made == makedirs(dirs, path, FALSE)
         IN  [fs |-> made.fs, err |-> made.err,
              ret |-> IF made.err = "none" THEN path ELSE <<>>]
    ELSE IF mode = "overwrite"
    THEN LET made == makedirs(dirs, save_path, TRUE)
         IN  [fs |-> made.fs, err |-> made.err,
              ret |-> IF made.err = "none" THEN save_path ELSE <<>>]
    ELSE [fs |-> dirs, err |-> "none", ret |-> save_path]

\* create_storage_folder(main_folder_path, project_folder, group_folder, run_name, mode)
create_storage_folder(dirs, main_folder_path, project_folder, group_folder, run_name, mode) ==
    LET main == makedirs(dirs, main_folder_path, TRUE)
        project_path == Join(main_folder_path, project_folder)
        project == makedirs(main.fs, project_path, TRUE)
        save_path == Join(Join(project_path, group_folder), run_name)
    IN  IF main.err # "none" THEN [fs |-> main.fs, err |-> main.err, ret |-> <<>>]
        ELSE IF project.err # "none"
        THEN [fs |-> project.fs, err |-> project.err, ret |-> <<>>]
        ELSE store(project.fs, project_path, group_folder, save_path, mode)

MainFolders == { <<"results">> }
ProjectFolders == { "proj" }
GroupFolders == { "run1", "run1_0" }
RunNames == { "exp", "alt" }
Modes == { "iterate", "overwrite", "merge" }

\* directories a starting filesystem may hold
StartLeaves ==
    { <<"results", "proj", "run1", "exp">>,
      <<"results", "proj", "run1_0">>,
      <<"results", "proj", "run1_1">> }

Closure(leaves) == UNION { Prefixes(p) : p \in leaves }

CreateStorageFolder ==
    /\ Len(calls) < MaxCalls
    /\ \E main \in MainFolders, project \in ProjectFolders,
          group \in GroupFolders, run \in RunNames, mode \in Modes :
          LET out == create_storage_folder(fs, main, project, group, run, mode)
          IN  /\ fs' = out.fs
              /\ calls' = Append(calls,
                     [main |-> main, project |-> project, group |-> group,
                      run_name |-> run, mode |-> mode,
                      before |-> fs, after |-> out.fs,
                      err |-> out.err, ret |-> out.ret])
    /\ UNCHANGED <<renderVars, resultVars, loaderVars>>

IdleRender == unreadable = {} /\ figures = <<>> /\ render = [called |-> FALSE, caller |-> ""]
IdleResults == csv = [exists |-> FALSE, rows |-> <<>>] /\ stored = [called |-> FALSE]
IdleLoaders == factory = [called |-> FALSE] /\ loaders = [called |-> FALSE] /\ instances = 0
IdleStorage == fs = {} /\ calls = <<>>

InitStorage ==
    /\ \E leaves \in SUBSET StartLeaves : fs = Closure(leaves)
    /\ calls = <<>>
    /\ IdleRender /\ IdleResults /\ IdleLoaders

NextStorage == CreateStorageFolder

SpecStorage == InitStorage /\ [][NextStorage]_vars

(***************************************************************************)
(* Segmentation renderer: plot_segmentation_images.                        *)
(*                                                                         *)
(* An image or mask path is a sequence of segments; the mask path None is  *)
(* the empty sequence, and the string "-1" is the one-segment path         *)
(* <<"-1">>.  An optional argument is a record [given, value].             *)
(***************************************************************************)
None == <<>>
Omitted == [given |-> FALSE, value |-> <<>>]
Given(value) == [given |-> TRUE, value |-> value]

\* save_depth=4, the default of the parameter
DefaultSaveDepth == 4

\* "_".join(segments)
RECURSIVE JoinUnderscore(_)
JoinUnderscore(segments) ==
    IF Len(segments) = 0 THEN ""
    ELSE IF Len(segments) = 1 THEN segments[1]
    ELSE segments[1] \o "_" \o JoinUnderscore(Tail(segments))

\* image_path.split("/")[-save_depth:], joined with "_"
savename(image_path, save_depth) ==
    JoinUnderscore(SubSeq(image_path, Max(1, Len(image_path) - save_depth + 1),
                          Len(image_path)))

\* ["-1" for _ in range(len(image_paths))]
Defaults(image_paths) == [i \in 1..Len(image_paths) |-> <<"-1">>]

\* the length of zip(image_paths, mask_paths, anomaly_scores, segmentations)
ZipLen(image_paths, mask_paths, anomaly_scores, segmentations) ==
    Min(Min(Len(image_paths), Len(mask_paths)),
        Min(Len(anomaly_scores), Len(segmentations)))

\* what a transform returns for a PIL image: the default lambda x: x returns
\* the PIL image, "array" a numpy array, "tensor" a torch tensor
transformed(transform) ==
    IF transform = "identity" THEN "PIL.Image"
    ELSE IF transform = "array" THEN "np.ndarray"
    ELSE "torch.Tensor"

\* if not isinstance(x, np.ndarray): x = x.numpy() -- a PIL image has no numpy()
to_numpy(value) ==
    IF value = "np.ndarray" \/ value = "torch.Tensor" THEN "none"
    ELSE "AttributeError"

\* the body of the loop for one sample: the exception it raises, or "none"
sample(unread, image_path, mask_path, masks_provided, image_transform, mask_transform) ==
    IF image_path \in unread THEN "OSError"                 \* PIL.Image.open(image_path)
    ELSE IF to_numpy(transformed(image_transform)) # "none"
    THEN to_numpy(transformed(image_transform))              \* image.numpy()
    ELSE IF masks_provided /\ mask_path # None /\ mask_path \in unread
    THEN "OSError"                                           \* PIL.Image.open(mask_path)
    ELSE IF masks_provided /\ mask_path # None
              /\ to_numpy(transformed(mask_transform)) # "none"
    THEN to_numpy(transformed(mask_transform))               \* mask.numpy()
    ELSE IF ~masks_provided THEN "UnboundLocalError"         \* axes[1].imshow(mask...)
    ELSE "none"

\* plt.subplots(1, 2 + int(masks_provided))
panels(masks_provided) == 2 + (IF masks_provided THEN 1 ELSE 0)

\* the loop from sample k on; an exception leaves the loop and the function
RECURSIVE loop(_, _, _, _)
loop(a, k, figs, written) ==
    IF k > a.n THEN [figures |-> figs, written |-> written, err |-> "none"]
    ELSE LET err == sample(a.unreadable, a.image_paths[k], a.mask_paths[k],
                           a.masks_provided, a.image_transform, a.mask_transform)
             name == savename(a.image_paths[k], a.save_depth)
         IN  IF err # "none"
             THEN [figures |-> figs, written |-> written, err |-> err]
             ELSE loop(a, k + 1,
                       [f \in DOMAIN figs \cup {name} |->
                           IF f = name THEN panels(a.masks_provided) ELSE figs[f]],
                       Append(written, name))

\* plot_segmentation_images(savefolder, image_paths, segmentations, anomaly_scores,
\*                          mask_paths, image_transform, mask_transform, save_depth)
plot_segmentation_images(dirs, unread, figs, savefolder, image_paths, segmentations, anomaly_scores, mask_paths, image_transform, mask_transform, save_depth) ==
    LET masks == IF mask_paths.given THEN mask_paths.value ELSE Defaults(image_paths)
        scores == IF anomaly_scores.given THEN anomaly_scores.value
                  ELSE Defaults(image_paths)
    IN  IF Len(masks) = 0                                    \* mask_paths[0]
        THEN [fs |-> dirs, figures |-> figs, written |-> <<>>, err |-> "IndexError"]
        ELSE LET out == loop([unreadable |-> unread,
                              image_paths |-> image_paths,
                              mask_paths |-> masks,
                              masks_provided |-> masks[1] # <<"-1">>,
                              image_transform |-> image_transform,
                              mask_transform |-> mask_transform,
                              save_depth |-> save_depth,
                              n |-> ZipLen(image_paths, masks, scores, segmentations)],
                             1, figs, <<>>)
             IN  [fs |-> makedirs(dirs, savefolder, TRUE).fs,
                  figures |-> out.figures, written |-> out.written, err |-> out.err]

ImageFiles ==
    { <<"test", "good", "000.png">>,
      <<"test", "broken", "000.png">>,
      <<"test", "broken", "001.png">> }
MaskFiles == { <<"gt", "000_mask.png">>, <<"gt", "001_mask.png">> }
MaskPaths == MaskFiles \cup {None}
\* the files a starting filesystem may hold unreadable
Damaged == { <<"test", "broken", "001.png">>, <<"gt", "001_mask.png">> }
SaveDepths == { 1, 2, DefaultSaveDepth }
\* "identity" is the default of image_transform and mask_transform
Transforms == { "identity", "array", "tensor" }

SeqsUpTo(S, n) == UNION { [1..k -> S] : k \in 0..n }
Optional(S) == {Omitted} \cup { Given(v) : v \in S }

\* the record of a plot_segmentation_images call and its outcome
Rendered(caller, image_paths, segmentations, anomaly_scores, mask_paths, image_transform, mask_transform, save_depth, out) ==
    [called |-> TRUE, caller |-> caller,
     image_paths |-> image_paths, segmentations |-> segmentations,
     anomaly_scores |-> anomaly_scores, mask_paths |-> mask_paths,
     image_transform |-> image_transform, mask_transform |-> mask_transform,
     save_depth |-> save_depth, written |-> out.written, err |-> out.err]

NotRendered == [called |-> FALSE, caller |-> ""]

PlotSegmentationImages ==
    /\ render = NotRendered
    /\ \E image_paths \in SeqsUpTo(ImageFiles, MaxSamples),
          segmentations \in SeqsUpTo({"map"}, MaxSamples),
          anomaly_scores \in Optional(SeqsUpTo({"score"}, MaxSamples)),
          mask_paths \in Optional(SeqsUpTo(MaskPaths, MaxSamples)),
          image_transform \in Transforms, mask_transform \in Transforms,
          save_depth \in SaveDepths :
          LET out == plot_segmentation_images(fs, unreadable, figures, <<"outputs">>,
                         image_paths, segmentations, anomaly_scores, mask_paths,
                         image_transform, mask_transform, save_depth)
          IN  /\ fs' = out.fs
              /\ figures' = out.figures
              /\ render' = Rendered("", image_paths, segmentations, anomaly_scores,
                                    mask_paths, image_transform, mask_transform,
                                    save_depth, out)
    /\ UNCHANGED <<calls, unreadable, resultVars, loaderVars>>

\* the data argument of save_segmentation_images: a DataLoader over a dataset
\* whose data_to_iterate holds (classname, anomaly, image_path, mask_path), or
\* anything else
LoaderOver(data_to_iterate) == [type |-> "DataLoader", data_to_iterate |-> data_to_iterate]
NoLoader == [type |-> "other", data_to_iterate |-> <<>>]
Records == [image_path : ImageFiles, mask_path : MaskPaths]

\* save_segmentation_images(data, segementations, scores): with a DataLoader,
\* plot_segmentation_images('outputs', image_paths, segementations, scores,
\* mask_paths) under transforms that return numpy arrays; else pass
SaveSegmentationImages ==
    /\ render = NotRendered
    /\ \E data \in {NoLoader} \cup { LoaderOver(d) : d \in SeqsUpTo(Records, MaxSamples) },
          segementations \in SeqsUpTo({"map"}, MaxSamples),
          scores \in Optional(SeqsUpTo({"score"}, MaxSamples)) :
          IF data.type = "DataLoader"
          THEN LET image_paths == [i \in 1..Len(data.data_to_iterate) |->
                                      data.data_to_iterate[i].image_path]
                   mask_paths == [i \in 1..Len(data.data_to_iterate) |->
                                      data.data_to_iterate[i].mask_path]
                   out == plot_segmentation_images(fs, unreadable, figures,
                              <<"outputs">>, image_paths, segementations, scores,
                              Given(mask_paths), "array", "array", DefaultSaveDepth)
               IN  /\ fs' = out.fs
                   /\ figures' = out.figures
                   /\ render' = Rendered("save_segmentation_images", image_paths,
                                         segementations, scores, Given(mask_paths),
                                         "array", "array", DefaultSaveDepth, out)
          ELSE /\ render' = [called |-> FALSE, caller |-> "save_segmentation_images"]
               /\ UNCHANGED <<fs, figures>>
    /\ UNCHANGED <<calls, unreadable, resultVars, loaderVars>>

InitRender ==
    /\ IdleStorage
    /\ unreadable \in SUBSET Damaged
    /\ figures = <<>>
    /\ render = NotRendered
    /\ IdleResults /\ IdleLoaders

NextRender == PlotSegmentationImages \/ SaveSegmentationImages

SpecRender == InitRender /\ [][NextRender]_vars

(***************************************************************************)
(* Results aggregator: compute_and_store_final_results.                    *)
(*                                                                         *)
(* Metrics are integers (hundredths); a mean is the exact fraction         *)
(* num/den in lowest terms, and the mean of no values (numpy's nan) is     *)
(* 0/0.  A CSV cell is a text or a number.                                 *)
(***************************************************************************)
column_names ==
    << "Instance AUROC", "Full Pixel AUROC", "Full PRO",
       "Anomaly Pixel AUROC", "Anomaly PRO" >>

Text(s) == [kind |-> "text", text |-> s, num |-> 0, den |-> 1]
Number(v) == [kind |-> "number", text |-> "", num |-> v, den |-> 1]
NaN == [kind |-> "number", text |-> "", num |-> 0, den |-> 0]

RECURSIVE Sum(_)
Sum(list) == IF Len(list) = 0 THEN 0 ELSE list[1] + Sum(Tail(list))

RECURSIVE GCD(_, _)
GCD(a, b) == IF b = 0 THEN a ELSE GCD(b, a % b)

\* a mean computed with integer division
mean_floor(list) ==
    IF Len(list) = 0 THEN NaN
    ELSE Number(Sum(list) \div Len(list))

\* np.mean(list)
mean(list) ==
    IF Len(list) = 0 THEN NaN
    ELSE LET g == GCD(Sum(list), Len(list))
         IN  [kind |-> "number", text |-> "",
              num |-> Sum(list) \div g, den |-> Len(list) \div g]

\* the assertion on row_names left out
row_names_match_unchecked(results, row_names) == TRUE

\* assert len(row_names) == len(results), when row_names is not None
row_names_match(results, row_names) ==
    row_names.given => Len(row_names.value) = Len(results)

\* [x[i] for x in results] raises IndexError on a row shorter than i
Indexable(results, i) == \A k \in 1..Len(results) : Len(results[k]) >= i

\* mean_metrics: one mean per column name, in column order
mean_metrics(results) ==
    [i \in 1..Len(column_names) |->
        mean([k \in 1..Len(results) |-> results[k][i]])]

Cells(values) == [i \in 1..Len(values) |-> Number(values[i])]
Texts(names) == [i \in 1..Len(names) |-> Text(names[i])]

\* the rows written for results[k..]: a row without its name raises IndexError
\* and leaves the rows written so far in the file
RECURSIVE data_rows(_, _, _, _)
data_rows(results, row_names, k, rows) ==
    IF k > Len(results) THEN [rows |-> rows, err |-> "none"]
    ELSE IF ~row_names.given
    THEN data_rows(results, row_names, k + 1, Append(rows, Cells(results[k])))
    ELSE IF k > Len(row_names.value) THEN [rows |-> rows, err |-> "IndexError"]
    ELSE data_rows(results, row_names, k + 1,
                   Append(rows, <<Text(row_names.value[k])>> \o Cells(results[k])))

\* with open(savename, "w"): header, one row per result, the mean row
write_csv(results, row_names, means) ==
    LET header == IF row_names.given
                  THEN <<Text("Row Names")>> \o Texts(column_names)
                  ELSE Texts(column_names)
        data == data_rows(results, row_names, 1, <<header>>)
        mean_scores == IF row_names.given THEN <<Text("Mean")>> \o means ELSE means
    IN  IF data.err # "none" THEN data
        ELSE [rows |-> Append(data.rows, mean_scores), err |-> "none"]

\* compute_and_store_final_results(results_path, results, row_names)
compute_and_store_final_results(file, results, row_names) ==
    IF ~row_names_match(results, row_names)
    THEN [csv |-> file, err |-> "AssertionError", ret |-> <<>>]
    ELSE IF \E i \in 1..Len(column_names) : ~Indexable(results, i)
    THEN [csv |-> file, err |-> "IndexError", ret |-> <<>>]
    ELSE LET means == mean_metrics(results)
             out == write_csv(results, row_names, means)
         IN  [csv |-> [exists |-> TRUE, rows |-> out.rows],
              err |-> out.err,
              ret |-> IF out.err # "none" THEN <<>>
                      ELSE [i \in 1..Len(column_names) |->
                               [key |-> "mean_" \o column_names[i],
                                value |-> means[i]]]]

MetricRows ==
    { <<90, 80, 70, 85, 75>>,
      <<95, 90, 80, 90, 85>>,
      <<100, 100, 100, 100, 100>>,
      <<51, 62, 73, 84>>,
      <<55, 65, 75, 85, 95, 99>> }

RowNames(n) == [i \in 1..n |-> "cls_" \o ToString(i)]

NoFile == [exists |-> FALSE, rows |-> <<>>]
OldFile == [exists |-> TRUE, rows |-> << <<Text("earlier run")>> >>]

ComputeAndStoreFinalResults ==
    /\ ~stored.called
    /\ \E results \in SeqsUpTo(MetricRows, MaxRows),
          row_names \in Optional({ RowNames(n) : n \in 0..MaxRows }) :
          LET out == compute_and_store_final_results(csv, results, row_names)
          IN  /\ csv' = out.csv
              /\ stored' = [called |-> TRUE, results |-> results,
                            row_names |-> row_names, before |-> csv,
                            err |-> out.err, ret |-> out.ret]
    /\ UNCHANGED <<storageVars, renderVars, loaderVars>>

InitResults ==
    /\ IdleStorage /\ IdleRender /\ IdleLoaders
    /\ csv \in {NoFile, OldFile}
    /\ stored = [called |-> FALSE]

NextResults == ComputeAndStoreFinalResults

SpecResults == InitResults /\ [][NextResults]_vars

(***************************************************************************)
(* Dataloader factory: dataset and the get_dataloaders it returns.         *)
(*                                                                         *)
(* A Python value that can be returned is a record with its type.  A       *)
(* dataset instance is identified by the order of its construction.        *)
(***************************************************************************)
\* the defaults of the parameters of dataset
train_val_split == 1
batch_size == 32
resize == 224
image_size == 224
num_workers == 2
prefetch_factor == 2

Str(text) == [type |-> "str", str |-> text]

\* MVTecDataset(source, classname, split, resize, train_val_split, ...): a new
\* instance; the TRAIN one is given augment, the TEST one imagesize
MVTecDataset(id, source, classname, split) ==
    [id |-> id, source |-> source, classname |-> classname, split |-> split,
     resize |-> resize, train_val_split |-> train_val_split,
     augment_given |-> split = "TRAIN", augment |-> TRUE,
     imagesize_given |-> split = "TEST", imagesize |-> image_size]

\* torch.utils.data.DataLoader(dataset, batch_size, shuffle, num_workers, ...)
DataLoader(data, shuffle) ==
    [dataset |-> data, batch_size |-> batch_size, shuffle |-> shuffle,
     num_workers |-> num_workers, prefetch_factor |-> prefetch_factor,
     pin_memory |-> TRUE, has_name |-> FALSE, name |-> ""]

\* train_loader.name = name; train_loader.name += '_' + subdataset
train_name(name, subdataset) == name \o "_" \o subdataset

\* one pass of the loop of get_dataloaders: the bundle of subdataset,
\* built on the instances first and first + 1
dataloaders_dict(name, data_path, subdataset, first) ==
    LET train_dataset == MVTecDataset(first, data_path, subdataset, "TRAIN")
        test_dataset == MVTecDataset(first + 1, data_path, subdataset, "TEST")
        train_loader == [DataLoader(train_dataset, TRUE) EXCEPT
                            !.has_name = TRUE,
                            !.name = train_name(name, subdataset)]
        test_loader == DataLoader(test_dataset, FALSE)
    IN  [type |-> "dict", train |-> train_loader, test |-> test_loader]

\* get_dataloaders(): one bundle per subdataset, appended in input order
get_dataloaders(closure, made) ==
    [i \in 1..Len(closure.subdatasets) |->
        dataloaders_dict(closure.name, closure.data_path, closure.subdatasets[i],
                         made + 2 * (i - 1) + 1)]

\* dataset(name, data_path, subdatasets): return ("get_dataloaders", get_dataloaders)
dataset(name, data_path, subdatasets) ==
    << Str("get_dataloaders"),
       [type |-> "function", name |-> name, data_path |-> data_path,
        subdatasets |-> subdatasets] >>

RunTags == { "simplenet", "ablation" }
Subdatasets == { "bottle", "cable" }

Dataset ==
    /\ \E name \in RunTags, subdatasets \in SeqsUpTo(Subdatasets, MaxSubdatasets) :
          factory' = [called |-> TRUE, name |-> name, subdatasets |-> subdatasets,
                      ret |-> dataset(name, <<"data">>, subdatasets)]
    /\ UNCHANGED <<storageVars, renderVars, resultVars, loaders, instances>>

GetDataloaders ==
    /\ factory.called
    /\ instances + 2 * Len(factory.ret[2].subdatasets) <= MaxInstances
    /\ loaders' = [called |-> TRUE, of |-> factory.ret[2],
                   ret |-> get_dataloaders(factory.ret[2], instances)]
    /\ instances' = instances + 2 * Len(factory.ret[2].subdatasets)
    /\ UNCHANGED <<storageVars, renderVars, resultVars, factory>>

InitLoaders ==
    /\ IdleStorage /\ IdleRender /\ IdleResults
    /\ factory = [called |-> FALSE]
    /\ loaders = [called |-> FALSE]
    /\ instances = 0

NextLoaders == Dataset \/ GetDataloaders

SpecLoaders == InitLoaders /\ [][NextLoaders]_vars

(***************************************************************************)
(* Claims about create_storage_folder.                                     *)
(***************************************************************************)
SameArguments(c, d) ==
    /\ c.main = d.main /\ c.project = d.project
    /\ c.group = d.group /\ c.run_name = d.run_name

Candidate(c) == Join(Join(Join(c.main, c.project), c.group), c.run_name)
Suffixed(c, n) == Join(Join(c.main, c.project), c.group \o "_" \o ToString(n))

\* C1: in mode "iterate", every call returns a path that did not exist before
\* the call and exists after it, and no two calls with identical arguments
\* return the same path.
C1_IterateFresh ==
    /\ \A i \in 1..Len(calls) :
          calls[i].mode = "iterate" =>
              /\ calls[i].err = "none"
              /\ calls[i].ret \notin calls[i].before
              /\ calls[i].ret \in calls[i].after
    /\ \A i \in 1..Len(calls), j \in 1..Len(calls) :
          (i < j /\ calls[i].mode = "iterate" /\ calls[j].mode = "iterate"
                 /\ SameArguments(calls[i], calls[j]))
              => calls[i].ret # calls[j].ret

\* three "iterate" calls with identical arguments, the first on an existing candidate
C1_Witness ==
    /\ Len(calls) >= 3
    /\ \A i \in 1..3 : calls[i].mode = "iterate" /\ SameArguments(calls[1], calls[i])
    /\ Candidate(calls[1]) \in calls[1].before

\* C2: a mode other than "iterate" and "overwrite" fails with an
\* InvalidModeError: no path is returned and the run directory is not created.
C2_InvalidModeFails ==
    \A i \in 1..Len(calls) :
        calls[i].mode \notin {"iterate", "overwrite"} =>
            /\ calls[i].err = "InvalidModeError"
            /\ calls[i].ret = <<>>
            /\ (Candidate(calls[i]) \notin calls[i].before
                    => Candidate(calls[i]) \notin calls[i].after)

\* C7: in mode "iterate", a candidate root/project/group/run_name that does not
\* exist is created and returned; if it exists, the call creates and returns
\* root/project/group_N for the least N >= 0 such that group_N does not exist.
C7_IterateLeastSuffix ==
    \A i \in 1..Len(calls) :
        LET c == calls[i] IN
        c.mode = "iterate" =>
            /\ c.err = "none"
            /\ c.ret \in c.after
            /\ IF Candidate(c) \notin c.before
               THEN c.ret = Candidate(c)
               ELSE \E n \in 0..Cardinality(c.before) :
                       /\ c.ret = Suffixed(c, n)
                       /\ Suffixed(c, n) \notin c.before
                       /\ \A m \in 0..(n - 1) : Suffixed(c, m) \in c.before

\* an "iterate" call that found the candidate, group_0 and group_1 taken
C7_Witness ==
    \E i \in 1..Len(calls) :
        /\ calls[i].mode = "iterate"
        /\ Candidate(calls[i]) \in calls[i].before
        /\ Suffixed(calls[i], 0) \in calls[i].before
        /\ Suffixed(calls[i], 1) \in calls[i].before
        /\ calls[i].ret = Suffixed(calls[i], 2)

\* C10: in mode "overwrite", every call succeeds and returns
\* root/project/group/run_name, which exists after the call; nothing but that
\* path and its ancestors is created; calls with identical arguments return
\* the same path.
C10_OverwriteSamePath ==
    /\ \A i \in 1..Len(calls) :
          LET c == calls[i] IN
          c.mode = "overwrite" =>
              /\ c.err = "none"
              /\ c.ret = Candidate(c)
              /\ c.ret \in c.after
              /\ c.after = c.before \cup Prefixes(Candidate(c))
    /\ \A i \in 1..Len(calls), j \in 1..Len(calls) :
          (calls[i].mode = "overwrite" /\ calls[j].mode = "overwrite"
                 /\ SameArguments(calls[i], calls[j]))
              => calls[i].ret = calls[j].ret

\* two "overwrite" calls with identical arguments, the second on the path the first made
C10_Witness ==
    /\ Len(calls) >= 2
    /\ calls[1].mode = "overwrite" /\ calls[2].mode = "overwrite"
    /\ SameArguments(calls[1], calls[2])
    /\ Candidate(calls[1]) \notin calls[1].before
    /\ Candidate(calls[2]) \in calls[2].before
    /\ calls[2].after = calls[2].before

(***************************************************************************)
(* Claims about plot_segmentation_images.                                  *)
(***************************************************************************)
Samples == 1..Len(render.image_paths)
SaveNames == { savename(render.image_paths[i], render.save_depth) : i \in Samples }
Written == { render.written[i] : i \in 1..Len(render.written) }

EqualLengths ==
    /\ Len(render.segmentations) = Len(render.image_paths)
    /\ render.anomaly_scores.given
           => Len(render.anomaly_scores.value) = Len(render.image_paths)
    /\ render.mask_paths.given
           => Len(render.mask_paths.value) = Len(render.image_paths)

\* sample i can be rendered: its image, and its mask when it has one, can be read
Renderable(i) ==
    /\ render.image_paths[i] \notin unreadable
    /\ (render.mask_paths.given /\ i <= Len(render.mask_paths.value))
           => render.mask_paths.value[i] \notin unreadable

\* the transforms of the call return arrays or tensors, as those of
\* save_segmentation_images do, so that a PIL image is never asked for numpy()
Converts ==
    /\ render.image_transform # "identity"
    /\ render.mask_transform # "identity"

\* C3: without mask paths, n renderable samples with distinct file names give
\* n written files of 2 panels each; with mask paths every written figure has
\* 3 panels; in both cases at most n files are written.  Stated for calls
\* whose transforms return arrays.
C3_PanelsAndCount ==
    (render.called /\ Converts) =>
        /\ (~render.mask_paths.given /\ EqualLengths
                /\ (\A i \in Samples : Renderable(i))
                /\ Cardinality(SaveNames) = Len(render.image_paths))
               => /\ Written = SaveNames
                  /\ DOMAIN figures = SaveNames
                  /\ \A f \in SaveNames : figures[f] = 2
        /\ (render.mask_paths.given /\ EqualLengths
                /\ (\A i \in Samples : Renderable(i)))
               => /\ Written = SaveNames
                  /\ \A f \in SaveNames : figures[f] = 3
        /\ Cardinality(DOMAIN figures) <= Len(render.image_paths)

\* C4: a sample that cannot be rendered does not abort the batch: every later
\* sample that can be rendered has its figure written.  Stated for calls with
\* mask paths and transforms that return arrays, where a renderable sample
\* does get its figure.
C4_FailLocally ==
    (render.called /\ Converts /\ render.mask_paths.given /\ EqualLengths) =>
        \A i \in Samples, j \in Samples :
            (i < j /\ ~Renderable(i) /\ Renderable(j))
                => savename(render.image_paths[j], render.save_depth) \in DOMAIN figures

\* C9: sequences of unequal length make the call fail before any figure is
\* written; a prefix of the samples is never rendered silently.  Stated for
\* calls with mask paths and transforms that return arrays, where a
\* renderable sample does get its figure, and with no empty sequence.
C9_UnequalLengthsFail ==
    (/\ render.called /\ Converts /\ render.mask_paths.given /\ ~EqualLengths
     /\ Len(render.image_paths) > 0 /\ Len(render.segmentations) > 0
     /\ Len(render.mask_paths.value) > 0
     /\ render.anomaly_scores.given => Len(render.anomaly_scores.value) > 0) =>
        /\ render.err # "none"
        /\ Len(render.written) = 0
        /\ DOMAIN figures = {}

(***************************************************************************)
(* Claims about compute_and_store_final_results.                           *)
(***************************************************************************)
\* the total of column c, summed over the rows from the last to the first
RECURSIVE ColumnTotal(_, _, _)
ColumnTotal(results, c, upto) ==
    IF upto = 0 THEN 0 ELSE results[upto][c] + ColumnTotal(results, c, upto - 1)

\* C5: with row names given and len(row_names) # len(results) the call fails
\* with the assertion error before any side effect: no results.csv is created
\* and an existing one is left unchanged.
C5_MismatchWritesNothing ==
    (/\ stored.called /\ stored.row_names.given
     /\ Len(stored.row_names.value) # Len(stored.results)) =>
        /\ stored.err = "AssertionError"
        /\ stored.ret = <<>>
        /\ csv = stored.before

\* a failed call with fewer names than rows, on a results.csv of an earlier run
C5_Witness ==
    /\ stored.called /\ stored.row_names.given
    /\ Len(stored.row_names.value) < Len(stored.results)
    /\ stored.before = OldFile
    /\ csv = OldFile

\* C6: for r >= 1 rows of exactly 5 columns, the last row of results.csv is the
\* column-wise arithmetic mean of the rows (after "Mean" iff row names are
\* used), and the returned mapping has 5 entries, keyed "mean_" + column name
\* in column order, with those means as values.
C6_MeanRow ==
    (/\ stored.called
     /\ Len(stored.results) >= 1
     /\ \A k \in 1..Len(stored.results) : Len(stored.results[k]) = 5
     /\ stored.row_names.given
            => Len(stored.row_names.value) = Len(stored.results)) =>
        LET r == Len(stored.results)
            last == csv.rows[Len(csv.rows)]
            off == IF stored.row_names.given THEN 1 ELSE 0
        IN  /\ stored.err = "none"
            /\ csv.exists
            /\ Len(csv.rows) = r + 2
            /\ Len(last) = 5 + off
            /\ last[1] = Text("Mean") <=> stored.row_names.given
            /\ \A c \in 1..5 :
                  /\ last[c + off].kind = "number"
                  /\ last[c + off].den > 0
                  /\ last[c + off].num * r
                        = last[c + off].den * ColumnTotal(stored.results, c, r)
            /\ Len(stored.ret) = 5
            /\ \A c \in 1..5 :
                  /\ stored.ret[c].key = "mean_" \o column_names[c]
                  /\ stored.ret[c].value = last[c + off]

\* two named rows whose means are not whole numbers
C6_Witness ==
    /\ stored.called /\ stored.err = "none"
    /\ stored.results = << <<90, 80, 70, 85, 75>>, <<95, 90, 80, 90, 85>> >>
    /\ stored.row_names = Given(<<"cls_1", "cls_2">>)
    /\ csv.rows[4][1] = Text("Mean")
    /\ csv.rows[4][2] = [kind |-> "number", text |-> "", num |-> 185, den |-> 2]
    /\ stored.ret[5] = [key |-> "mean_Anomaly PRO", value |-> Number(80)]

(***************************************************************************)
(* Claims about dataset.                                                   *)
(***************************************************************************)
DatasetIds(bundle) == { bundle.train.dataset.id, bundle.test.dataset.id }

\* the bundles are one per subdataset, in input order, named and shuffled as
\* stated, on dataset instances of their own
BundlesOf(bundles, name, subdatasets) ==
    /\ Len(bundles) = Len(subdatasets)
    /\ \A i \in 1..Len(bundles) :
          /\ bundles[i].type = "dict"
          /\ bundles[i].train.has_name
          /\ bundles[i].train.name = name \o "_" \o subdatasets[i]
          /\ bundles[i].train.shuffle
          /\ ~bundles[i].test.shuffle
          /\ bundles[i].train.dataset.classname = subdatasets[i]
          /\ bundles[i].test.dataset.classname = subdatasets[i]
          /\ bundles[i].train.dataset.split = "TRAIN"
          /\ bundles[i].test.dataset.split = "TEST"
          /\ Cardinality(DatasetIds(bundles[i])) = 2
    /\ \A i \in 1..Len(bundles), j \in 1..Len(bundles) :
          i # j => DatasetIds(bundles[i]) \cap DatasetIds(bundles[j]) = {}

\* C8: dataset returns to its caller a sequence of exactly k bundles
\* {train, test} in input order, the train member named
\* "{run_name}_{subdataset[i]}", train shuffled and test not, no dataset
\* instance shared between bundles.
C8_ReturnsBundles ==
    factory.called => BundlesOf(factory.ret, factory.name, factory.subdatasets)

====
